---- MODULE Spec2Model ----
(***************************************************************************)
(* hyperts/utils/plot.py: the module's import guards and its two renderers *)
(* plot_plotly and plot_mpl.  A call is modelled by what it does to the    *)
(* charting backend: the figure it creates, the traces/lines it adds (with *)
(* the x-axis and the column each one reads), the layout it sets, and the  *)
(* exception that ends it, if any.                                         *)
(*                                                                         *)
(* Encodings.  Python values of mixed type are records of one shape, so    *)
(* that they can be compared: var_id is [type, i, s]; an optional value    *)
(* (x or None) is the sequence <<x>> or <<>>; a table is [name, columns,   *)
(* nrows]; a cell or axis value is [kind, table, v].                       *)
(***************************************************************************)
EXTENDS Integers, Sequences, FiniteSets, TLC

\* Bounds of the explored inputs.
MaxCols == 2        \* longest target_col list
MaxLen == 2         \* most rows of the forecast and of the history table

\* The target column names every supplied table holds, in table order (the
\* docstrings require each table to include the target columns, so that
\* table[target_col] succeeds; forecast, actual and history also hold the
\* timestamp column unless the data is timestamp-free, and the two interval
\* tables hold the target columns alone).
TableCols == <<"a", "b">>
Names == {TableCols[k] : k \in 1..Len(TableCols)}
TsName == "ts"

VARIABLES
    installed,      \* the packages importable in this environment
    loaded,         \* the module's top-level code has run
    enable_mpl,     \* module global, lines 10/12
    enable_plotly,  \* module global, lines 17/19
    globals,        \* the backend names bound in the module: "plt", "go"
    log,            \* logger.error messages
    args,           \* the arguments the renderers are called with
    result          \* per renderer: <<>> before its call, <<frame>> after

vars == <<installed, loaded, enable_mpl, enable_plotly, globals, log, args, result>>

Renderers == {"plot_plotly", "plot_mpl"}

None == <<>>
Some(x) == <<x>>
Range(s) == {s[k] : k \in 1..Len(s)}

IntVal(n) == [type |-> "int", i |-> n, s |-> ""]
StrVal(x) == [type |-> "str", i |-> 0, s |-> x]

Table(nm, hasTs, n) ==
    [name |-> nm, columns |-> (IF hasTs THEN <<TsName>> ELSE <<>>) \o TableCols, nrows |-> n]

\* A raw cell of a table column, and the value tb.to_datetime makes of it.
Cell(tbl, r) == [kind |-> "raw", table |-> tbl, v |-> r]
IntX(n) == [kind |-> "int", table |-> "", v |-> n]

\* ------------------------------------------------------------------------
\* Python and toolbox primitives, as the renderers use them.

\* Variant of list_index: the position of the last occurrence.
list_index_last(l, x) == (CHOOSE k \in 1..Len(l) : l[k] = x /\ \A j \in (k+1)..Len(l) : l[j] # x) - 1

\* list.index: the position (0-based) of the first occurrence.
list_index(l, x) == (CHOOSE k \in 1..Len(l) : l[k] = x /\ \A j \in 1..(k-1) : l[j] # x) - 1

\* tb.to_datetime on a column: every raw cell parsed to a date/time value.
to_datetime(col) == [k \in 1..Len(col) |-> [col[k] EXCEPT !.kind = "datetime"]]

\* Variant of arange: stop included.
arange_inclusive(start, stop) == [k \in 1..(IF stop >= start THEN stop - start + 1 ELSE 0) |-> IntX(start + k - 1)]

\* tb.arange(start, stop): start, start+1, ..., stop-1.
arange(start, stop) == [k \in 1..(IF stop > start THEN stop - start ELSE 0) |-> IntX(start + k - 1)]

\* table[timestamp_col]: the cells of the timestamp column, in row order.
column_of(tbl) == [r \in 1..tbl.nrows |-> Cell(tbl.name, r)]

\* Variant of iloc: the first row whatever i is.
iloc_first(col, i) == col[1]

\* column.iloc[i] on a non-empty column; i = -1 is the last row.
iloc(col, i) == col[(IF i < 0 THEN Len(col) + i ELSE i) + 1]

\* Positional indexing .values[:, i] / .columns[i] into n columns: Python
\* accepts -n..n-1 (negative counts from the end) and raises IndexError else.
index_ok(n, i) == -n <= i /\ i < n
index_pos(n, i) == IF i < 0 THEN n + i ELSE i

\* ------------------------------------------------------------------------
\* The frame of one call: its locals and what it has done to the backend.

NewFrame(a) ==
    [status |-> "running",          \* "running", "returned" or the exception raised
     target_col |-> <<>>,           \* the normalized list (set by the first step)
     var_id |-> a.var_id,
     timestamp_col |-> "",
     ts_free |-> FALSE,
     X_forecast |-> <<>>,
     X_train |-> None,
     y_train |-> FALSE,             \* y_train is not None
     train_end_date |-> None,
     figure |-> FALSE,              \* a figure has been created
     traces |-> <<>>,               \* the traces/lines added, in order
     shapes |-> <<>>,               \* layout shapes: x of each vertical line
     annotations |-> <<>>,          \* layout annotations: [x, text]
     title |-> "",
     ylabel |-> "",
     shown |-> FALSE,               \* fig.show() / plt.show() was reached
     accesses |-> <<>>]             \* every positional access by var_id

\* One series read at column var_id of a table with columns cols and added to
\* the figure: go.Scatter(x=..., y=T.values[:, var_id], name=...) followed by
\* fig.add_trace, or plt.plot(x, T.values[:, var_id], label=...).
column_at(tbl, cols, i) ==
    [table |-> tbl, column |-> cols[index_pos(Len(cols), i) + 1], pos |-> i]

add_series(f, nm, x, tbl, cols, fillmode) ==
    LET i == f.var_id.i
        acc == [table |-> tbl, index |-> i, width |-> Len(cols)]
    IN  IF ~index_ok(Len(cols), i)
        THEN [f EXCEPT !.status = "IndexError", !.accesses = Append(@, acc)]
        ELSE [f EXCEPT !.accesses = Append(@, acc),
                       !.traces = Append(@, [name |-> nm, x |-> x,
                                             y |-> column_at(tbl, cols, i),
                                             y2 |-> None, fill |-> fillmode])]

\* ------------------------------------------------------------------------
\* plot_plotly

\* Variant of plotly_resolve: an unknown name falls back to index 0.
plotly_resolve_noraise(f, a) ==
    IF f.status # "running" THEN f ELSE
    LET target_col == IF ~a.target_col.isList THEN <<a.target_col.s>> ELSE a.target_col.l
        var_id == a.var_id
    IN  IF var_id.type = "str" /\ var_id.s \in Range(target_col)
        THEN [f EXCEPT !.target_col = target_col,
                       !.var_id = IntVal(list_index(target_col, var_id.s))]
        ELSE IF var_id.type = "str"
        THEN [f EXCEPT !.target_col = target_col, !.var_id = IntVal(0)]
        ELSE [f EXCEPT !.target_col = target_col]
\* lines 65-71: target_col to a list, var_id to an index or ValueError.
plotly_resolve(f, a) ==
    IF f.status # "running" THEN f ELSE
    LET target_col == IF ~a.target_col.isList THEN <<a.target_col.s>> ELSE a.target_col.l
        var_id == a.var_id
    IN  IF var_id.type = "str" /\ var_id.s \in Range(target_col)
        THEN [f EXCEPT !.target_col = target_col,
                       !.var_id = IntVal(list_index(target_col, var_id.s))]
        ELSE IF var_id.type = "str" /\ var_id.s \notin Range(target_col)
        THEN [f EXCEPT !.target_col = target_col, !.status = "ValueError"]
        ELSE [f EXCEPT !.target_col = target_col]

\* lines 73-96: timestamp_col to a name, ts_free, the x-axes and the marker.
plotly_axes(f, a) ==
    IF f.status # "running" THEN f ELSE
    LET timestamp_col == IF a.timestamp_col.isList THEN a.timestamp_col.l[1]
                         ELSE a.timestamp_col.s
        ts_free == IF timestamp_col \in Range(a.forecast.columns) THEN FALSE ELSE TRUE
        f1 == [f EXCEPT !.timestamp_col = timestamp_col, !.ts_free = ts_free]
    IN  IF a.history # None /\ a.include_history
        THEN LET history == a.history[1] IN
             IF ~ts_free
             THEN IF history.nrows = 0
                  THEN \* history[timestamp_col].iloc[-1] of an empty column
                       [f1 EXCEPT !.status = "IndexError", !.y_train = TRUE,
                                  !.X_train = Some(to_datetime(column_of(history))),
                                  !.X_forecast = to_datetime(column_of(a.forecast))]
                  ELSE [f1 EXCEPT !.y_train = TRUE,
                                  !.X_train = Some(to_datetime(column_of(history))),
                                  !.X_forecast = to_datetime(column_of(a.forecast)),
                                  !.train_end_date = Some(iloc(column_of(history), -1))]
             ELSE [f1 EXCEPT !.y_train = TRUE,
                             !.X_train = Some(arange(0, history.nrows)),
                             !.X_forecast = arange(history.nrows,
                                                   history.nrows + a.forecast.nrows),
                             !.train_end_date = None]
        ELSE IF ~ts_free
             THEN [f1 EXCEPT !.X_forecast = to_datetime(column_of(a.forecast))]
             ELSE [f1 EXCEPT !.X_forecast = arange(0, a.forecast.nrows)]

\* lines 98-99: go.Figure() and plt.set_loglevel; a name whose import failed
\* is unbound, and its use raises NameError.
plotly_figure(f, g) ==
    IF f.status # "running" THEN f ELSE
    IF "go" \notin g THEN [f EXCEPT !.status = "NameError"]
    ELSE IF "plt" \notin g THEN [f EXCEPT !.figure = TRUE, !.status = "NameError"]
    ELSE [f EXCEPT !.figure = TRUE]

\* Variant of plotly_interval: the pair unpacked as (lower, upper).
plotly_interval_swapped(f, a) ==
    IF f.status # "running" THEN f ELSE
    IF a.forecast_interval # None /\ a.show_forecast_interval
    THEN LET upper_forecast == a.forecast_interval[1][2]
             lower_forecast == a.forecast_interval[1][1]
             f1 == add_series(f, "Lower Bound", f.X_forecast,
                              lower_forecast.name, lower_forecast.columns, "")
         IN  IF f1.status # "running" THEN f1
             ELSE add_series(f1, "Upper Bound", f.X_forecast,
                             upper_forecast.name, upper_forecast.columns, "tonexty")
    ELSE f
\* lines 101-128: the two bounds of the interval.
plotly_interval(f, a) ==
    IF f.status # "running" THEN f ELSE
    IF a.forecast_interval # None /\ a.show_forecast_interval
    THEN LET upper_forecast == a.forecast_interval[1][1]
             lower_forecast == a.forecast_interval[1][2]
             f1 == add_series(f, "Lower Bound", f.X_forecast,
                              lower_forecast.name, lower_forecast.columns, "")
         IN  IF f1.status # "running" THEN f1
             ELSE add_series(f1, "Upper Bound", f.X_forecast,
                             upper_forecast.name, upper_forecast.columns, "tonexty")
    ELSE f

\* lines 130-138
plotly_actual(f, a) ==
    IF f.status # "running" THEN f ELSE
    IF a.actual # None
    THEN add_series(f, "Actual", f.X_forecast, a.actual[1].name, f.target_col, "")
    ELSE f

\* lines 140-147
plotly_forecast(f, a) ==
    IF f.status # "running" THEN f ELSE
    add_series(f, "Forecast", f.X_forecast, a.forecast.name, f.target_col, "")

\* lines 149-157
plotly_history(f, a) ==
    IF f.status # "running" THEN f ELSE
    IF a.history # None /\ a.include_history
    THEN add_series(f, "Historical", f.X_train[1], a.history[1].name, f.target_col, "")
    ELSE f

\* lines 159-186: the vertical line and its annotation at train_end_date.
plotly_end_date(f, a) ==
    IF f.status # "running" THEN f ELSE
    IF f.train_end_date # None /\ a.include_history
    THEN [f EXCEPT !.shapes = <<f.train_end_date[1]>>,
                   !.annotations = <<[x |-> f.train_end_date[1],
                                      text |-> "Observed End Date"]>>]
    ELSE f

\* lines 188-202: axis titles, the title, fig.show().
plotly_layout(f, a) ==
    IF f.status # "running" THEN f ELSE
    LET i == f.var_id.i
        n == Len(f.target_col)
        acc == [table |-> "columns", index |-> i, width |-> n]
    IN  IF ~index_ok(n, i)
        THEN [f EXCEPT !.status = "IndexError", !.accesses = Append(@, acc)]
        ELSE [f EXCEPT !.accesses = Append(@, acc),
                       !.ylabel = f.target_col[index_pos(n, i) + 1],
                       !.title = IF a.actual # None THEN "Actual vs Forecast"
                                 ELSE "Forecast Curve",
                       !.shown = TRUE,
                       !.status = "returned"]

\* Variant of plot_plotly: the historical trace added first, as plot_mpl draws.
plot_plotly_history_first(a, g) ==
    LET f1 == plotly_resolve(NewFrame(a), a)
        f2 == plotly_axes(f1, a)
        f3 == plotly_figure(f2, g)
        f4 == plotly_history(f3, a)
        f5 == plotly_interval(f4, a)
        f6 == plotly_actual(f5, a)
        f7 == plotly_forecast(f6, a)
        f8 == plotly_end_date(f7, a)
    IN  plotly_layout(f8, a)

\* lines 63-202: the body of plot_plotly, in source order.
plot_plotly(a, g) ==
    LET f1 == plotly_resolve(NewFrame(a), a)
        f2 == plotly_axes(f1, a)
        f3 == plotly_figure(f2, g)
        f4 == plotly_interval(f3, a)
        f5 == plotly_actual(f4, a)
        f6 == plotly_forecast(f5, a)
        f7 == plotly_history(f6, a)
        f8 == plotly_end_date(f7, a)
    IN  plotly_layout(f8, a)

\* ------------------------------------------------------------------------
\* plot_mpl

\* Variant of mpl_resolve: the name resolved to a 1-based position.
mpl_resolve_one_based(f, a) ==
    IF f.status # "running" THEN f ELSE
    LET target_col == IF ~a.target_col.isList THEN <<a.target_col.s>> ELSE a.target_col.l
        var_id == a.var_id
    IN  IF var_id.type = "str" /\ var_id.s \in Range(target_col)
        THEN [f EXCEPT !.target_col = target_col,
                       !.var_id = IntVal(list_index(target_col, var_id.s) + 1)]
        ELSE IF var_id.type = "str" /\ var_id.s \notin Range(target_col)
        THEN [f EXCEPT !.target_col = target_col, !.status = "ValueError"]
        ELSE [f EXCEPT !.target_col = target_col]
\* lines 254-260: target_col to a list, var_id to an index or ValueError.
mpl_resolve(f, a) ==
    IF f.status # "running" THEN f ELSE
    LET target_col == IF ~a.target_col.isList THEN <<a.target_col.s>> ELSE a.target_col.l
        var_id == a.var_id
    IN  IF var_id.type = "str" /\ var_id.s \in Range(target_col)
        THEN [f EXCEPT !.target_col = target_col,
                       !.var_id = IntVal(list_index(target_col, var_id.s))]
        ELSE IF var_id.type = "str" /\ var_id.s \notin Range(target_col)
        THEN [f EXCEPT !.target_col = target_col, !.status = "ValueError"]
        ELSE [f EXCEPT !.target_col = target_col]

\* lines 262-283: timestamp_col to a name, ts_free and the x-axes.
mpl_axes(f, a) ==
    IF f.status # "running" THEN f ELSE
    LET timestamp_col == IF a.timestamp_col.isList THEN a.timestamp_col.l[1]
                         ELSE a.timestamp_col.s
        ts_free == IF timestamp_col \in Range(a.forecast.columns) THEN FALSE ELSE TRUE
        f1 == [f EXCEPT !.timestamp_col = timestamp_col, !.ts_free = ts_free]
    IN  IF a.history # None /\ a.include_history
        THEN LET history == a.history[1] IN
             IF ~ts_free
             THEN [f1 EXCEPT !.y_train = TRUE,
                             !.X_train = Some(to_datetime(column_of(history))),
                             !.X_forecast = to_datetime(column_of(a.forecast))]
             ELSE [f1 EXCEPT !.y_train = TRUE,
                             !.X_train = Some(arange(0, history.nrows)),
                             !.X_forecast = arange(history.nrows,
                                                   history.nrows + a.forecast.nrows)]
        ELSE IF ~ts_free
             THEN [f1 EXCEPT !.X_forecast = to_datetime(column_of(a.forecast))]
             ELSE [f1 EXCEPT !.X_forecast = arange(0, a.forecast.nrows)]

\* line 285: plt.figure(...)
mpl_figure(f, g) ==
    IF f.status # "running" THEN f ELSE
    IF "plt" \notin g THEN [f EXCEPT !.status = "NameError"]
    ELSE [f EXCEPT !.figure = TRUE]

\* lines 287-291: guarded by include_history alone; y_train.values of a
\* y_train that is None raises AttributeError.
mpl_history(f, a) ==
    IF f.status # "running" THEN f ELSE
    IF a.include_history
    THEN IF ~f.y_train
         THEN [f EXCEPT !.status = "AttributeError"]
         ELSE add_series(f, "Historical", f.X_train[1], a.history[1].name, f.target_col, "")
    ELSE f

\* lines 293-296
mpl_forecast(f, a) ==
    IF f.status # "running" THEN f ELSE
    add_series(f, "Forecast", f.X_forecast, a.forecast.name, f.target_col, "")

\* Variant of mpl_actual: the actual line is never drawn.
mpl_actual_never(f, a) == f

\* lines 298-303
mpl_actual(f, a) ==
    IF f.status # "running" THEN f ELSE
    IF a.actual # None
    THEN add_series(f, "Actual", f.X_forecast, a.actual[1].name, f.target_col, "")
    ELSE f

\* lines 305-313: plt.fill_between(X_forecast, lower column, upper column).
mpl_interval(f, a) ==
    IF f.status # "running" THEN f ELSE
    IF a.forecast_interval # None /\ a.show_forecast_interval
    THEN LET upper_forecast == a.forecast_interval[1][1]
             lower_forecast == a.forecast_interval[1][2]
             i == f.var_id.i
             lo == [table |-> lower_forecast.name, index |-> i,
                    width |-> Len(lower_forecast.columns)]
             up == [table |-> upper_forecast.name, index |-> i,
                    width |-> Len(upper_forecast.columns)]
         IN  IF ~index_ok(lo.width, i)
             THEN [f EXCEPT !.status = "IndexError", !.accesses = Append(@, lo)]
             ELSE IF ~index_ok(up.width, i)
             THEN [f EXCEPT !.status = "IndexError",
                            !.accesses = Append(Append(@, lo), up)]
             ELSE [f EXCEPT !.accesses = Append(Append(@, lo), up),
                            !.traces = Append(@,
                                [name |-> "Uncertainty Interval", x |-> f.X_forecast,
                                 y |-> column_at(lower_forecast.name,
                                                 lower_forecast.columns, i),
                                 y2 |-> Some(column_at(upper_forecast.name,
                                                       upper_forecast.columns, i)),
                                 fill |-> "between"])]
    ELSE f

\* lines 315-320: the title, the axis labels, plt.show().
mpl_decorate(f, a) ==
    IF f.status # "running" THEN f ELSE
    LET i == f.var_id.i
        n == Len(f.target_col)
        acc == [table |-> "columns", index |-> i, width |-> n]
        f1 == [f EXCEPT !.title = IF a.actual # None THEN "Actual vs Forecast"
                                  ELSE "Forecast Curve"]
    IN  IF ~index_ok(n, i)
        THEN [f1 EXCEPT !.status = "IndexError", !.accesses = Append(@, acc)]
        ELSE [f1 EXCEPT !.accesses = Append(@, acc),
                        !.ylabel = f.target_col[index_pos(n, i) + 1],
                        !.shown = TRUE,
                        !.status = "returned"]

\* lines 252-320: the body of plot_mpl, in source order.
plot_mpl(a, g) ==
    LET f1 == mpl_resolve(NewFrame(a), a)
        f2 == mpl_axes(f1, a)
        f3 == mpl_figure(f2, g)
        f4 == mpl_history(f3, a)
        f5 == mpl_forecast(f4, a)
        f6 == mpl_actual(f5, a)
        f7 == mpl_interval(f6, a)
    IN  mpl_decorate(f7, a)

\* ------------------------------------------------------------------------
\* The module and its callers.

\* lines 8-20: each backend import is guarded; a failure is logged and
\* leaves the backend's name unbound.
ImportModule ==
    /\ ~loaded
    /\ loaded' = TRUE
    /\ enable_mpl' = ("matplotlib" \in installed)
    /\ enable_plotly' = ("plotly" \in installed)
    /\ globals' = (IF "matplotlib" \in installed THEN {"plt"} ELSE {})
                  \cup (IF "plotly" \in installed THEN {"go"} ELSE {})
    /\ log' = (IF "matplotlib" \in installed THEN <<>>
               ELSE <<"Importing matplotlib failed. Plotting will not work.">>)
              \o (IF "plotly" \in installed THEN <<>>
                  ELSE <<"Importing plotly failed. Interactive plots will not work.">>)
    /\ UNCHANGED <<installed, args, result>>

CallPlotly ==
    /\ loaded
    /\ result["plot_plotly"] = None
    /\ result' = [result EXCEPT !["plot_plotly"] = Some(plot_plotly(args, globals))]
    /\ UNCHANGED <<installed, loaded, enable_mpl, enable_plotly, globals, log, args>>

CallMpl ==
    /\ loaded
    /\ result["plot_mpl"] = None
    /\ result' = [result EXCEPT !["plot_mpl"] = Some(plot_mpl(args, globals))]
    /\ UNCHANGED <<installed, loaded, enable_mpl, enable_plotly, globals, log, args>>

\* The inputs explored.
SeqsUpTo(S, n) == UNION {[1..k -> S] : k \in 0..n}

TargetColArgs ==
    {[isList |-> FALSE, s |-> n, l |-> <<>>] : n \in Names}
    \cup {[isList |-> TRUE, s |-> "", l |-> l] : l \in SeqsUpTo(Names, MaxCols)}

TimestampColArgs ==
    {[isList |-> FALSE, s |-> TsName, l |-> <<>>], [isList |-> TRUE, s |-> "", l |-> <<TsName>>]}

VarIdArgs == {IntVal(n) : n \in (-1)..MaxCols} \cup {StrVal(n) : n \in Names}

ArgSpace ==
    {[forecast |-> Table("forecast", hasTs, flen),
      timestamp_col |-> tsc,
      target_col |-> tc,
      var_id |-> v,
      actual |-> IF act THEN Some(Table("actual", hasTs, flen)) ELSE None,
      history |-> IF hlen < 0 THEN None ELSE Some(Table("history", hasTs, hlen)),
      forecast_interval |-> IF itv THEN Some(<<Table("upper", FALSE, flen),
                                               Table("lower", FALSE, flen)>>)
                            ELSE None,
      show_forecast_interval |-> show,
      include_history |-> inc] :
        hasTs \in BOOLEAN, flen \in 1..MaxLen, tsc \in TimestampColArgs,
        tc \in TargetColArgs, v \in VarIdArgs, act \in BOOLEAN,
        hlen \in (-1)..MaxLen, itv \in BOOLEAN, show \in BOOLEAN, inc \in BOOLEAN}

Init ==
    /\ installed \in SUBSET {"matplotlib", "plotly"}
    /\ loaded = FALSE
    /\ enable_mpl = FALSE
    /\ enable_plotly = FALSE
    /\ globals = {}
    /\ log = <<>>
    /\ args \in ArgSpace
    /\ result = [r \in Renderers |-> None]

Next == ImportModule \/ CallPlotly \/ CallMpl

Spec == Init /\ [][Next]_vars

\* ------------------------------------------------------------------------
\* Properties.

Called(r) == result[r] # None
Frame(r) == result[r][1]

TargetList == IF args.target_col.isList THEN args.target_col.l ELSE <<args.target_col.s>>
TsColName == IF args.timestamp_col.isList THEN args.timestamp_col.l[1] ELSE args.timestamp_col.s
TimestampFree == TsColName \notin Range(args.forecast.columns)
HistoryIncluded == args.history # None /\ args.include_history
BandRequested == args.forecast_interval # None /\ args.show_forecast_interval
NameGiven == args.var_id.type = "str"
NameAbsent == NameGiven /\ \A k \in 1..Len(TargetList) : TargetList[k] # args.var_id.s
NamePresent == NameGiven /\ \E k \in 1..Len(TargetList) : TargetList[k] = args.var_id.s

TraceNames(f) == [k \in 1..Len(f.traces) |-> f.traces[k].name]
HasTrace(f, nm) == \E k \in 1..Len(f.traces) : f.traces[k].name = nm
TracesNamed(f, nm) == {k \in 1..Len(f.traces) : f.traces[k].name = nm}
Ints(start, n) == [k \in 1..n |-> [kind |-> "int", table |-> "", v |-> start + k - 1]]

\* C1: a var_id given as a name that is not in the normalized target_col ends
\* the call with ValueError before a figure exists and before anything is
\* drawn or shown, in both renderers and whatever the other arguments and
\* the available backends are.
C1_UnknownNameRejected ==
    \A r \in Renderers :
        (Called(r) /\ NameAbsent) =>
            /\ Frame(r).status = "ValueError"
            /\ ~Frame(r).figure
            /\ Frame(r).traces = <<>>
            /\ Frame(r).shapes = <<>>
            /\ Frame(r).accesses = <<>>
            /\ ~Frame(r).shown

C1_Witness ==
    /\ Called("plot_plotly") /\ Called("plot_mpl")
    /\ NameAbsent
    /\ Len(TargetList) = 1
    /\ HistoryIncluded /\ BandRequested /\ args.actual # None
    /\ installed = {"matplotlib", "plotly"}
    /\ Frame("plot_plotly").status = "ValueError"
    /\ Frame("plot_mpl").status = "ValueError"

\* C2: a name that occurs in target_col resolves to the position of its
\* first occurrence, an integer var_id stays as given, and every series
\* drawn and the y-axis label are read at the resolved index.
C2_ResolvedIndex ==
    \A r \in Renderers :
        Called(r) =>
            LET f == Frame(r) IN
            /\ f.target_col = TargetList
            /\ NamePresent =>
                  /\ f.var_id.type = "int"
                  /\ TargetList[f.var_id.i + 1] = args.var_id.s
                  /\ \A k \in 1..f.var_id.i : TargetList[k] # args.var_id.s
            /\ ~NameGiven => f.var_id = args.var_id
            /\ \A k \in 1..Len(f.traces) :
                  /\ f.traces[k].y.pos = f.var_id.i
                  /\ f.traces[k].y2 # None => f.traces[k].y2[1].pos = f.var_id.i
                  /\ f.traces[k].y.table \in {"forecast", "actual", "history"} =>
                        f.traces[k].y.column =
                            TargetList[(IF f.var_id.i < 0 THEN Len(TargetList) + f.var_id.i
                                        ELSE f.var_id.i) + 1]
            /\ f.status = "returned" =>
                  f.ylabel = TargetList[(IF f.var_id.i < 0 THEN Len(TargetList) + f.var_id.i
                                         ELSE f.var_id.i) + 1]

C2_Witness ==
    /\ Called("plot_plotly") /\ Called("plot_mpl")
    /\ NamePresent
    /\ Len(TargetList) = 2 /\ TargetList[1] = TargetList[2]
    /\ Frame("plot_plotly").status = "returned"
    /\ Frame("plot_mpl").status = "returned"
    /\ Frame("plot_plotly").var_id.i = 0
    /\ Len(Frame("plot_plotly").traces) = 5
    /\ Len(Frame("plot_mpl").traces) = 4

\* C3: in timestamp-free mode the forecast x-axis is 0..len(forecast)-1 when
\* history is not included (not supplied, or include_history false); when it
\* is included the history x-axis is 0..len(history)-1 and the forecast
\* x-axis is len(history)..len(history)+len(forecast)-1.  The series drawn
\* use these axes.
C3_TimestampFreeAxes ==
    \A r \in Renderers :
        (Called(r) /\ TimestampFree /\ ~NameAbsent) =>
            LET f == Frame(r)
                hlen == IF HistoryIncluded THEN args.history[1].nrows ELSE 0
            IN
            /\ f.ts_free
            /\ f.X_forecast = Ints(hlen, args.forecast.nrows)
            /\ HistoryIncluded => f.X_train = Some(Ints(0, hlen))
            /\ ~HistoryIncluded => f.X_train = None
            /\ \A k \in 1..Len(f.traces) :
                  f.traces[k].x = IF f.traces[k].name = "Historical"
                                  THEN Ints(0, hlen)
                                  ELSE Ints(hlen, args.forecast.nrows)

C3_Witness ==
    /\ Called("plot_plotly") /\ Called("plot_mpl")
    /\ TimestampFree /\ HistoryIncluded
    /\ args.history[1].nrows = MaxLen /\ args.forecast.nrows = MaxLen
    /\ Frame("plot_plotly").status = "returned"
    /\ Frame("plot_mpl").status = "returned"
    /\ Frame("plot_mpl").X_forecast[1].v = MaxLen
    /\ HasTrace(Frame("plot_mpl"), "Historical")

\* C4: in plot_plotly, when history is included and the mode is not
\* timestamp-free, the boundary marker is the last timestamp of the history
\* table and a call that completes has drawn the vertical line and the
\* 'Observed End Date' annotation at it; in every other case there is no
\* marker, no line and no annotation.
C4_BoundaryMarker ==
    Called("plot_plotly") =>
        LET f == Frame("plot_plotly")
            last == [kind |-> "raw", table |-> "history",
                     v |-> IF args.history # None THEN args.history[1].nrows ELSE 0]
        IN
        /\ (HistoryIncluded /\ ~TimestampFree /\ f.status = "returned") =>
              /\ f.train_end_date = Some(last)
              /\ f.shapes = <<last>>
              /\ f.annotations = <<[x |-> last, text |-> "Observed End Date"]>>
        /\ ~(HistoryIncluded /\ ~TimestampFree) =>
              /\ f.train_end_date = None
              /\ f.shapes = <<>>
              /\ f.annotations = <<>>
        /\ f.shapes # <<>> => f.shapes = <<last>>

C4_Witness ==
    /\ Called("plot_plotly")
    /\ HistoryIncluded /\ ~TimestampFree
    /\ args.history[1].nrows = MaxLen
    /\ Frame("plot_plotly").status = "returned"
    /\ Frame("plot_plotly").shapes # <<>>

\* C5: the actual-values series is drawn exactly when actual is supplied,
\* the title is 'Actual vs Forecast' when it is supplied and 'Forecast Curve'
\* when it is not, and every call that completes has drawn the forecast
\* series (once).
C5_ActualAndTitle ==
    \A r \in Renderers :
        Called(r) =>
            LET f == Frame(r) IN
            /\ HasTrace(f, "Actual") => args.actual # None
            /\ f.status = "returned" =>
                  /\ HasTrace(f, "Actual") <=> args.actual # None
                  /\ Cardinality(TracesNamed(f, "Actual")) <= 1
                  /\ args.actual # None => f.title = "Actual vs Forecast"
                  /\ args.actual = None => f.title = "Forecast Curve"
                  /\ Cardinality(TracesNamed(f, "Forecast")) = 1
                  /\ \A k \in TracesNamed(f, "Actual") : f.traces[k].y.table = "actual"
                  /\ \A k \in TracesNamed(f, "Forecast") : f.traces[k].y.table = "forecast"

C5_Witness ==
    /\ Called("plot_plotly") /\ Called("plot_mpl")
    /\ args.actual # None
    /\ Frame("plot_plotly").status = "returned"
    /\ Frame("plot_mpl").status = "returned"
    /\ HasTrace(Frame("plot_mpl"), "Actual")
    /\ HasTrace(Frame("plot_plotly"), "Actual")
    /\ Frame("plot_mpl").title = "Actual vs Forecast"

\* C6: the uncertainty band is drawn exactly when forecast_interval is
\* supplied and show_forecast_interval is true; its upper bound is the column
\* at the resolved index of the first interval table, its lower bound the
\* column at that index of the second, both over the forecast x-axis.  In
\* every other case no band is drawn and the interval pair is not read.
C6_IntervalBand ==
    \A r \in Renderers :
        Called(r) =>
            LET f == Frame(r)
                band == IF r = "plot_plotly"
                        THEN HasTrace(f, "Lower Bound") /\ HasTrace(f, "Upper Bound")
                        ELSE HasTrace(f, "Uncertainty Interval")
                pos == IF f.var_id.i < 0 THEN Len(TableCols) + f.var_id.i ELSE f.var_id.i
                lo == [table |-> "lower", column |-> TableCols[pos + 1], pos |-> f.var_id.i]
                up == [table |-> "upper", column |-> TableCols[pos + 1], pos |-> f.var_id.i]
            IN
            /\ f.status = "returned" => (band <=> BandRequested)
            /\ ~BandRequested =>
                  /\ \A k \in 1..Len(f.traces) :
                        f.traces[k].name \notin {"Lower Bound", "Upper Bound",
                                                 "Uncertainty Interval"}
                  /\ \A k \in 1..Len(f.accesses) :
                        f.accesses[k].table \notin {"upper", "lower"}
            /\ \A k \in 1..Len(f.traces) :
                  /\ f.traces[k].name = "Lower Bound" =>
                        f.traces[k].y = lo /\ f.traces[k].x = f.X_forecast
                  /\ f.traces[k].name = "Upper Bound" =>
                        f.traces[k].y = up /\ f.traces[k].x = f.X_forecast
                  /\ f.traces[k].name = "Uncertainty Interval" =>
                        /\ f.traces[k].y = lo /\ f.traces[k].y2 = Some(up)
                        /\ f.traces[k].x = f.X_forecast

C6_Witness ==
    /\ Called("plot_plotly") /\ Called("plot_mpl")
    /\ BandRequested
    /\ Frame("plot_plotly").status = "returned"
    /\ Frame("plot_mpl").status = "returned"
    /\ Frame("plot_plotly").var_id.i = 1
    /\ HasTrace(Frame("plot_plotly"), "Upper Bound")
    /\ HasTrace(Frame("plot_mpl"), "Uncertainty Interval")

\* Inputs every documented precondition of which holds: var_id names a target
\* column or is an index into a non-empty target_col, an included history is
\* supplied and, when it carries timestamps, has a last row.
ValidInputs ==
    /\ Len(TargetList) > 0
    /\ NameGiven => NamePresent
    /\ ~NameGiven => (0 <= args.var_id.i /\ args.var_id.i < Len(TargetList))
    /\ args.include_history => args.history # None
    /\ (args.include_history /\ ~TimestampFree) => args.history[1].nrows > 0

\* C7: a backend that fails to import disables only its own renderer: with
\* matplotlib missing and plotly present plot_plotly completes and shows its
\* figure on valid inputs, with plotly missing and matplotlib present
\* plot_mpl completes, and the module loads in both environments.
C7_OtherRendererStillWorks ==
    /\ ~loaded => ENABLED ImportModule
    /\ (installed = {"plotly"} /\ Called("plot_plotly") /\ ValidInputs) =>
          /\ Frame("plot_plotly").status = "returned"
          /\ Frame("plot_plotly").shown
    /\ (installed = {"matplotlib"} /\ Called("plot_mpl") /\ ValidInputs) =>
          /\ Frame("plot_mpl").status = "returned"
          /\ Frame("plot_mpl").shown

InRange(f, acc) ==
    /\ Len(f.target_col) > 0
    /\ 0 <= acc.index
    /\ acc.index < Len(f.target_col)

\* C8 as stated: at every access by var_id, target_col is a non-empty list
\* and 0 <= var_id < len(target_col), whether var_id was given as a name or
\* as an integer.
C8_EveryAccessInRange ==
    \A r \in Renderers :
        Called(r) =>
            \A k \in 1..Len(Frame(r).accesses) : InRange(Frame(r), Frame(r).accesses[k])

\* C8, amended: when var_id is given as a name, at every access by var_id
\* target_col is a non-empty list and 0 <= var_id < len(target_col), and a
\* call that completes has made such an access; an integer var_id is passed
\* to the accesses as given.
C8_NameAccessInRange ==
    \A r \in Renderers :
        Called(r) =>
            LET f == Frame(r) IN
            /\ NameGiven =>
                  \A k \in 1..Len(f.accesses) : InRange(f, f.accesses[k])
            /\ ~NameGiven =>
                  \A k \in 1..Len(f.accesses) : f.accesses[k].index = args.var_id.i
            /\ f.status = "returned" => Len(f.accesses) >= 2

C8_Witness ==
    /\ Called("plot_plotly") /\ Called("plot_mpl")
    /\ NamePresent
    /\ Len(TargetList) = 2
    /\ Frame("plot_mpl").var_id.i = 1
    /\ Frame("plot_mpl").status = "returned"
    /\ Frame("plot_plotly").status = "returned"
    /\ Len(Frame("plot_mpl").accesses) = 6
    /\ Len(Frame("plot_plotly").accesses) = 6

\* C9: a plot_plotly call that completes has added its traces in the order
\* 'Lower Bound', 'Upper Bound' (both only if the band is requested),
\* 'Actual' (only if supplied), 'Forecast' (always), 'Historical' (only if
\* history is included); 'Upper Bound' fills to the previous trace and that
\* trace is 'Lower Bound'.  A call that fails has added a prefix of them.
ExpectedTraceOrder ==
    (IF BandRequested THEN <<"Lower Bound", "Upper Bound">> ELSE <<>>)
    \o (IF args.actual # None THEN <<"Actual">> ELSE <<>>)
    \o <<"Forecast">>
    \o (IF HistoryIncluded THEN <<"Historical">> ELSE <<>>)

C9_TraceOrder ==
    Called("plot_plotly") =>
        LET f == Frame("plot_plotly") IN
        /\ f.status = "returned" => TraceNames(f) = ExpectedTraceOrder
        /\ Len(f.traces) <= Len(ExpectedTraceOrder)
        /\ \A k \in 1..Len(f.traces) : f.traces[k].name = ExpectedTraceOrder[k]
        /\ \A k \in 1..Len(f.traces) :
              (f.traces[k].fill = "tonexty") <=> (f.traces[k].name = "Upper Bound")
        /\ \A k \in 1..Len(f.traces) :
              f.traces[k].name = "Upper Bound" =>
                  k > 1 /\ f.traces[k - 1].name = "Lower Bound"

C9_Witness ==
    /\ Called("plot_plotly")
    /\ Frame("plot_plotly").status = "returned"
    /\ TraceNames(Frame("plot_plotly")) =
          <<"Lower Bound", "Upper Bound", "Actual", "Forecast", "Historical">>

\* The series of a frame by role, whatever the backend calls them.
LineOf(f, nm) ==
    IF HasTrace(f, nm)
    THEN LET k == CHOOSE j \in 1..Len(f.traces) : f.traces[j].name = nm
         IN  Some([x |-> f.traces[k].x, y |-> f.traces[k].y])
    ELSE None

BandOf(f) ==
    IF HasTrace(f, "Uncertainty Interval")
    THEN LET k == CHOOSE j \in 1..Len(f.traces) : f.traces[j].name = "Uncertainty Interval"
         IN  Some([x |-> f.traces[k].x, lower |-> f.traces[k].y, upper |-> f.traces[k].y2[1]])
    ELSE IF HasTrace(f, "Lower Bound") /\ HasTrace(f, "Upper Bound")
    THEN LET lo == CHOOSE j \in 1..Len(f.traces) : f.traces[j].name = "Lower Bound"
             up == CHOOSE j \in 1..Len(f.traces) : f.traces[j].name = "Upper Bound"
         IN  Some([x |-> f.traces[lo].x, lower |-> f.traces[lo].y, upper |-> f.traces[up].y])
    ELSE None

\* C10: on the same arguments, with both backends available, plot_mpl and
\* plot_plotly both complete or both fail, and when they complete they have
\* drawn the same historical, forecast, actual and band series over the same
\* x-axes and columns; plot_mpl draws the historical line exactly when
\* history is supplied and include_history is true.
C10_SameSelection ==
    (Called("plot_plotly") /\ Called("plot_mpl") /\ installed = {"matplotlib", "plotly"}) =>
        LET p == Frame("plot_plotly")
            m == Frame("plot_mpl")
        IN
        /\ (p.status = "returned") <=> (m.status = "returned")
        /\ (p.status = "returned" /\ m.status = "returned") =>
              /\ LineOf(p, "Historical") = LineOf(m, "Historical")
              /\ LineOf(p, "Forecast") = LineOf(m, "Forecast")
              /\ LineOf(p, "Actual") = LineOf(m, "Actual")
              /\ BandOf(p) = BandOf(m)
              /\ HasTrace(m, "Historical") <=> HistoryIncluded

====
